---- MODULE Spec2Model ----
(***************************************************************************)
(* Model of the multi-source scraping coordinator, ScraperManager, of      *)
(* core/scrapers/scraper_manager.py: the source registry, the selector,    *)
(* the parallel execution engine on its ThreadPoolExecutor, the            *)
(* deduplicator and the session tracker.                                   *)
(*                                                                         *)
(* Python strings are sequences of one-character strings, so that          *)
(* str.lower(), concatenation and the substring test `a in loc` are        *)
(* computed as the code computes them.                                     *)
(***************************************************************************)
EXTENDS Integers, Sequences, FiniteSets, TLC

(***************************************************************************)
(* Bounds of the model.                                                    *)
(***************************************************************************)
\* search_jobs calls made in one behaviour (sessions ever created)
MaxSessions == 2
\* calls of the control methods (enable_scraper, pause_scraping,
\* resume_scraping, cancel_scraping, close) made in one behaviour
MaxControlCalls == 2
\* length of the raw result lists the deduplicator is applied to on its own
MaxLen == 3
\* sources each of the two background searches names when the pool is exercised
PoolWidth == 3
\* seconds that pass one at a time / jumps past the retention window, in one
\* behaviour
MaxTicks == 1
MaxJumps == 1

\* the threads that call search_jobs: the thread that owns the manager, and
\* the two daemon threads setup_automated_job_hunting starts
Callers == {"caller", "scheduler", "monitor"}

(***************************************************************************)
(* Program constants.                                                      *)
(***************************************************************************)
\* ThreadPoolExecutor(max_workers=5)
max_workers == 5
\* ScraperConfig.timeout_seconds default
timeout_seconds == 300
\* get_scrapers_for_search: unique[:8]
SelectionLimit == 8
\* cleanup_old_sessions(days_to_keep=30); timedelta(days=1) in seconds
days_to_keep == 30
SecondsPerDay == 86400

(***************************************************************************)
(* Strings.                                                                *)
(***************************************************************************)
UpperChars == <<"A","B","C","D","E","F","G","H","I","J","K","L","M",
                "N","O","P","Q","R","S","T","U","V","W","X","Y","Z">>
LowerChars == <<"a","b","c","d","e","f","g","h","i","j","k","l","m",
                "n","o","p","q","r","s","t","u","v","w","x","y","z">>

\* str.lower() on one character
LowerChar(c) ==
    IF \E i \in 1..Len(UpperChars) : UpperChars[i] = c
    THEN LowerChars[CHOOSE i \in 1..Len(UpperChars) : UpperChars[i] = c]
    ELSE c

\* str.lower()
Lower(s) == [i \in 1..Len(s) |-> LowerChar(s[i])]

\* the Python test `a in s` on strings
IsSubstring(a, s) ==
    \E k \in 0..(Len(s) - Len(a)) : \A i \in 1..Len(a) : s[k + i] = a[i]

\* any(a in s for a in needles)
ContainsAny(s, needles) == \E a \in needles : IsSubstring(a, s)

(***************************************************************************)
(* The registry set up by __init__ (_setup_comprehensive_scrapers).        *)
(***************************************************************************)
\* the names registered at construction, in registration order
RegisteredNames ==
    <<"LinkedIn", "Indeed", "Glassdoor", "Monster", "Dice", "AngelList",
      "RemoteOK", "WeWorkRemotely", "Upwork", "Freelancer", "Fiverr", "Seek",
      "Reed", "Totaljobs", "StepStone", "Xing", "ENR", "ASCE",
      "EngineersAustralia">>

\* ScraperConfig(name, priority=i): enabled and timeout_seconds keep their defaults
InitialConfigs ==
    [n \in {RegisteredNames[i] : i \in 1..Len(RegisteredNames)} |->
        [enabled |-> TRUE,
         priority |-> CHOOSE i \in 1..Len(RegisteredNames) : RegisteredNames[i] = n,
         timeout_seconds |-> timeout_seconds]]

\* register_scraper: the performance record of a newly registered source
NewPerformance == [jobs_scraped |-> 0, error_count |-> 0]

CoreScrapers == <<"LinkedIn", "Indeed">>
FreelanceScrapers == <<"Upwork", "Freelancer", "Fiverr">>
ITScrapers == <<"Dice", "AngelList", "RemoteOK">>
CivilScrapers == <<"ENR", "ASCE">>
AustraliaScrapers == <<"Seek", "EngineersAustralia">>
UKScrapers == <<"Reed", "Totaljobs">>
GermanyScrapers == <<"StepStone", "Xing">>
RemoteScrapers == <<"RemoteOK", "WeWorkRemotely">>

AustraliaWords == {<<"s","y","d","n","e","y">>, <<"m","e","l","b","o","u","r","n","e">>, <<"a","u","s","t","r","a","l","i","a">>}
UKWords == {<<"l","o","n","d","o","n">>, <<"m","a","n","c","h","e","s","t","e","r">>, <<"u","k">>, <<"u","n","i","t","e","d"," ","k","i","n","g","d","o","m">>}
GermanyWords == {<<"b","e","r","l","i","n">>, <<"m","u","n","i","c","h">>, <<"g","e","r","m","a","n","y">>, <<"d","e","u","t","s","c","h","l","a","n","d">>}

(***************************************************************************)
(* Source selection.                                                       *)
(***************************************************************************)
\* `if s in self.scraper_configs and self.scraper_configs[s].enabled`
IsEnabled(configs, s) == s \in DOMAIN configs /\ configs[s].enabled

\* for s in names: if <registered and enabled>: selected_scrapers.append(s)
EnabledOf(configs, names) == SelectSeq(names, LAMBDA s : IsEnabled(configs, s))

\* the platforms one job type adds
ScrapersForJobType(job_type) ==
    CASE job_type = "freelance" -> FreelanceScrapers
      [] job_type = "it" -> ITScrapers
      [] job_type = "civil" -> CivilScrapers
      [] OTHER -> <<>>

\* the platforms one location adds (an if / elif chain on location.lower())
ScrapersForLocation(location) ==
    LET loc == Lower(location)
    IN  IF ContainsAny(loc, AustraliaWords) THEN AustraliaScrapers
        ELSE IF ContainsAny(loc, UKWords) THEN UKScrapers
        ELSE IF ContainsAny(loc, GermanyWords) THEN GermanyScrapers
        ELSE <<>>

RECURSIVE ByJobTypes(_, _)
ByJobTypes(configs, job_types) ==
    IF job_types = <<>> THEN <<>>
    ELSE EnabledOf(configs, ScrapersForJobType(Head(job_types)))
         \o ByJobTypes(configs, Tail(job_types))

RECURSIVE ByLocations(_, _)
ByLocations(configs, locations) ==
    IF locations = <<>> THEN <<>>
    ELSE EnabledOf(configs, ScrapersForLocation(Head(locations)))
         \o ByLocations(configs, Tail(locations))

\* de-duplicate while preserving order
RECURSIVE UniqueInOrder(_)
UniqueInOrder(names) ==
    IF names = <<>> THEN <<>>
    ELSE LET front == UniqueInOrder(SubSeq(names, 1, Len(names) - 1))
             last == names[Len(names)]
         IN  IF \E i \in 1..Len(front) : front[i] = last
             THEN front
             ELSE Append(front, last)

\* seq[-n:], to test that the properties of the selection depend on which
\* end of the list the limit cuts
TakeLast(seq, n) ==
    SubSeq(seq, IF Len(seq) < n THEN 1 ELSE Len(seq) - n + 1, Len(seq))

\* seq[:n]
Take(seq, n) == SubSeq(seq, 1, IF Len(seq) < n THEN Len(seq) ELSE n)

\* get_scrapers_for_search(search_query), user_profile = None
get_scrapers_for_search(configs, query) ==
    LET selected_scrapers ==
            EnabledOf(configs, CoreScrapers)
            \o ByJobTypes(configs, query.job_types)
            \o ByLocations(configs, query.locations)
            \o (IF query.remote_only THEN EnabledOf(configs, RemoteScrapers) ELSE <<>>)
    IN  Take(UniqueInOrder(selected_scrapers), SelectionLimit)

\* sorted(selected.items(), key=priority): a stable insertion sort
RECURSIVE SortByPriority(_, _)
SortByPriority(configs, names) ==
    IF names = <<>> THEN <<>>
    ELSE LET sorted == SortByPriority(configs, SubSeq(names, 1, Len(names) - 1))
             x == names[Len(names)]
             \* x goes after every element whose priority is not larger
             k == Cardinality({i \in 1..Len(sorted) :
                                 configs[sorted[i]].priority <= configs[x].priority})
         IN  SubSeq(sorted, 1, k) \o <<x>> \o SubSeq(sorted, k + 1, Len(sorted))

\* the fallback of _select_scrapers: core names that are registered
CoreFallback(configs) == SelectSeq(CoreScrapers, LAMBDA s : s \in DOMAIN configs)

\* _select_scrapers(search_query, specific_scrapers): the keys of the dict it
\* returns, in its order
select_scrapers(configs, query, specific_scrapers) ==
    LET selected ==
            IF specific_scrapers # <<>>
            THEN UniqueInOrder(EnabledOf(configs, specific_scrapers))
            ELSE LET auto == UniqueInOrder(
                                 EnabledOf(configs, get_scrapers_for_search(configs, query)))
                 IN  IF auto = <<>> THEN CoreFallback(configs) ELSE auto
    IN  SortByPriority(configs, selected)

(***************************************************************************)
(* Jobs and their fingerprints.                                            *)
(***************************************************************************)
\* Location.__str__; None is the empty string, which is as falsy as None
LocationStr(l) ==
    IF l.is_remote THEN <<"R","e","m","o","t","e">>
    ELSE IF l.is_hybrid
         THEN IF l.city # <<>> /\ l.country # <<>>
              THEN <<"H","y","b","r","i","d"," ","-"," ">> \o l.city \o <<","," ">> \o l.country
              ELSE <<"H","y","b","r","i","d">>
    ELSE IF l.city # <<>> /\ l.country # <<>>
         THEN IF l.state # <<>>
              THEN l.city \o <<","," ">> \o l.state \o <<","," ">> \o l.country
              ELSE l.city \o <<","," ">> \o l.country
    ELSE IF l.country # <<>> THEN l.country
    ELSE <<"L","o","c","a","t","i","o","n"," ","n","o","t"," ","s","p","e","c","i","f","i","e","d">>

\* hashlib.md5(...).hexdigest(), taken to be collision-free: a digest is
\* equal to another exactly when the digested contents are equal
Md5(content) == <<"md5", content>>

\* _create_job_hash(job)
create_job_hash(job) ==
    LET title == Lower(job.title)
        company == Lower(job.company)
        location == Lower(LocationStr(job.location))
    IN  Md5(title \o company \o location)

\* _deduplicate_jobs(jobs) started with self.job_hashes = hashes: the local
\* state after the loop, with the number of times the else branch was taken
RECURSIVE DedupLoop(_, _)
DedupLoop(jobs, hashes) ==
    IF jobs = <<>>
    THEN [unique_jobs |-> <<>>, job_hashes |-> hashes, seen_urls |-> {}, dropped |-> 0]
    ELSE LET st == DedupLoop(SubSeq(jobs, 1, Len(jobs) - 1), hashes)
             job == jobs[Len(jobs)]
             job_hash == create_job_hash(job)
         IN  IF job_hash \notin st.job_hashes /\ job.url \notin st.seen_urls
             THEN [unique_jobs |-> Append(st.unique_jobs, job),
                   job_hashes |-> st.job_hashes \cup {job_hash},
                   seen_urls |-> st.seen_urls \cup {job.url},
                   dropped |-> st.dropped]
             ELSE [st EXCEPT !.dropped = st.dropped + 1]

\* a deduplication that keeps every result, to test that the deduplication
\* properties depend on the loop
deduplicate_nothing(jobs, hashes) ==
    [unique_jobs |-> jobs,
     job_hashes |-> hashes \cup {create_job_hash(jobs[i]) : i \in 1..Len(jobs)},
     seen_urls |-> {jobs[i].url : i \in 1..Len(jobs)},
     dropped |-> 0]

\* a deduplication whose loop ends at the first duplicate (break where the
\* code goes on), to test that the order properties depend on the loop
RECURSIVE deduplicate_until_duplicate(_, _)
deduplicate_until_duplicate(jobs, hashes) ==
    IF jobs = <<>>
    THEN [unique_jobs |-> <<>>, job_hashes |-> hashes, seen_urls |-> {}, dropped |-> 0]
    ELSE LET st == deduplicate_until_duplicate(SubSeq(jobs, 1, Len(jobs) - 1), hashes)
             job == jobs[Len(jobs)]
             job_hash == create_job_hash(job)
         IN  IF /\ st.dropped = 0
                /\ job_hash \notin st.job_hashes
                /\ job.url \notin st.seen_urls
             THEN [unique_jobs |-> Append(st.unique_jobs, job),
                   job_hashes |-> st.job_hashes \cup {job_hash},
                   seen_urls |-> st.seen_urls \cup {job.url},
                   dropped |-> st.dropped]
             ELSE [st EXCEPT !.dropped = st.dropped + 1]

deduplicate_jobs(jobs, hashes) == DedupLoop(jobs, hashes)

\* _save_jobs_to_database: the for loop from job i on; fails is the set of
\* jobs for which db_manager.save_job raises. A saved job's id is represented
\* by its URL, the key save_job finds the row by.
RECURSIVE SaveLoop(_, _, _, _)
SaveLoop(jobs, i, fails, st) ==
    IF i > Len(jobs) THEN st
    ELSE LET job == jobs[i]
             called == [st EXCEPT !.calls = Append(@, job)]
         IN  IF job \in fails
             THEN SaveLoop(jobs, i + 1, fails, called)
             ELSE SaveLoop(jobs, i + 1, fails,
                           [called EXCEPT !.saved_ids = Append(@, job.url)])

\* a save loop that ends at the first save_job that raises, to test that
\* the saves after a failure are observed
save_until_failure(jobs, fails) ==
    LET first == {i \in 1..Len(jobs) : jobs[i] \in fails}
        last == IF first = {} THEN Len(jobs)
                ELSE CHOOSE i \in first : \A k \in first : i <= k
    IN  SaveLoop(SubSeq(jobs, 1, last), 1, fails, [calls |-> <<>>, saved_ids |-> <<>>])

save_jobs_to_database(jobs, fails) ==
    SaveLoop(jobs, 1, fails, [calls |-> <<>>, saved_ids |-> <<>>])

(***************************************************************************)
(* The environment: what the adapters return and what callers ask.         *)
(***************************************************************************)
RemoteLocation == [city |-> <<>>, state |-> <<>>, country |-> <<>>,
                   is_remote |-> TRUE, is_hybrid |-> FALSE]
RemoteBerlin == [city |-> <<"B","e","r","l","i","n">>, state |-> <<>>, country |-> <<"G","e","r","m","a","n","y">>,
                 is_remote |-> TRUE, is_hybrid |-> FALSE]
BerlinLocation == [city |-> <<"B","e","r","l","i","n">>, state |-> <<>>, country |-> <<"G","e","r","m","a","n","y">>,
                   is_remote |-> FALSE, is_hybrid |-> FALSE]

J1 == [title |-> <<"D","e","v">>, company |-> <<"A","c","m","e">>, location |-> RemoteLocation,
       url |-> "u1", source |-> "LinkedIn"]
J2 == [title |-> <<"O","p","s">>, company |-> <<"A","c","m","e">>, location |-> BerlinLocation,
       url |-> "u2", source |-> "LinkedIn"]
\* the fingerprint of J1 (case differs, and Remote hides the city), another URL
J3 == [title |-> <<"d","e","v">>, company |-> <<"A","C","M","E">>, location |-> RemoteBerlin,
       url |-> "u3", source |-> "Indeed"]
\* a fingerprint of its own, the URL of J2
J4 == [title |-> <<"E","n","g">>, company |-> <<"A","c","m","e">>, location |-> BerlinLocation,
       url |-> "u2", source |-> "Indeed"]
\* the fingerprint of J1 again, from a third source
J5 == [title |-> <<"D","E","V">>, company |-> <<"a","c","m","e">>, location |-> RemoteLocation,
       url |-> "u5", source |-> "Dice"]

JobPool == {J1, J2, J3, J4, J5}

\* what scraper.scrape_jobs returns for a source when it does not raise
Catalogue(name) ==
    CASE name = "LinkedIn" -> <<J1, J2>>
      [] name = "Indeed" -> <<J3, J4>>
      [] name = "Dice" -> <<J5>>
      [] OTHER -> <<>>

EmptyQuery == [job_types |-> <<>>, locations |-> <<>>, remote_only |-> FALSE]

\* search_jobs(query): the selector chooses
AutoRequest == [query |-> EmptyQuery, specific_scrapers |-> <<>>]
\* search_jobs(query, specific_scrapers=["Dice", "Bogus"]): one name is not registered
SpecificRequest == [query |-> EmptyQuery, specific_scrapers |-> <<"Dice", "Bogus">>]

Requests == {AutoRequest, SpecificRequest}

\* the configurations that callers register: one under a name of the default
\* registry, one under a new name
RegisterConfigs ==
    {[name |-> "Dice", enabled |-> FALSE, priority |-> 1, timeout_seconds |-> 60],
     [name |-> "Custom", enabled |-> TRUE, priority |-> 20, timeout_seconds |-> 60]}

\* the names enable_scraper is called with
EnableNames == {"LinkedIn", "Indeed", "Bogus"}

(***************************************************************************)
(* The state of one ScraperManager and of the threads using it.            *)
(***************************************************************************)
VARIABLES
    scraper_configs,   \* self.scraper_configs: name -> ScraperConfig
    performance,       \* self.stats['scraper_performance']: name -> record
    stats,             \* the other counters of self.stats
    sessions,          \* every ScrapingSession object created, by creation index
    current_session,   \* self.current_session: an index of sessions, 0 is None
    session_history,   \* self.session_history: indexes of sessions
    is_running,        \* self.is_running
    should_stop,       \* self.should_stop
    job_hashes,        \* self.job_hashes
    tasks,             \* the work items given to self.executor, in submission order
    shutdown,          \* the executor has been shut down
    pc,                \* where each thread is inside search_jobs
    request,           \* the arguments of each thread's search_jobs call
    scrapers_to_use,   \* local of search_jobs: the selected names, by priority
    futures,           \* local of _execute_parallel_scraping: indexes of tasks
    cursor,            \* position of the running for loop
    all_jobs,          \* local of _execute_parallel_scraping / search_jobs
    unique_jobs,       \* local of search_jobs
    dropped,           \* duplicates the last _deduplicate_jobs call removed
    waited,            \* seconds the collector spent in result() calls that timed out
    returned,          \* what the last search_jobs call gave its caller
    done_at_cancel,    \* history: the futures finished when cancel_scraping hit
    control_calls,     \* control-method calls made so far
    registry_call,     \* how the last register_scraper / enable_scraper call ended
    refused,           \* the jobs for which db_manager.save_job raises
    save_calls,        \* the jobs _save_jobs_to_database called save_job for
    saved_job_ids,     \* local of search_jobs: one entry per saved job
    clock              \* datetime.now(), in seconds since the manager was made

vars == <<scraper_configs, performance, stats, sessions, current_session,
          session_history, is_running, should_stop, job_hashes, tasks, shutdown,
          pc, request, scrapers_to_use, futures, cursor, all_jobs, unique_jobs,
          dropped, waited, returned, done_at_cancel, control_calls, registry_call,
          refused, save_calls, saved_job_ids, clock>>

registry == <<scraper_configs, registry_call>>
trackers == <<performance, stats>>
persisted == <<refused, save_calls, saved_job_ids>>
locals == <<request, scrapers_to_use, futures, cursor, all_jobs, unique_jobs,
            dropped, waited, returned, persisted>>

\* ScrapingSession(session_id, search_query, scrapers_used=[], start_time,
\* status=RUNNING): the fields the coordinator writes later
\* _generate_session_id: f"session_{timestamp}_{len(self.session_history)}";
\* the timestamp has the second as its last digits and a fixed width, so the
\* text is the pair of the clock's second and the length of the history
generate_session_id == <<clock, Len(session_history)>>

NewSession == [session_id |-> generate_session_id, start_time |-> clock,
               scrapers_used |-> <<>>, status |-> "running", end_time |-> FALSE,
               jobs_found |-> 0, jobs_saved |-> 0, duplicates_removed |-> 0,
               errors |-> <<>>]

Terminal == {"completed", "failed", "cancelled"}

\* returned[c]: no call has returned yet / the call raised
NoReturn == 0
Raised == -1
\* done_at_cancel[c]: no cancel_scraping during the execution
NotCancelled == <<"none">>

\* the jobs the database refuses (sqlite3 raises in save_job)
RefusedJobs == {J2}

\* no _save_jobs_to_database call has run
NothingSaved ==
    /\ save_calls = [c \in Callers |-> <<>>]
    /\ saved_job_ids = [c \in Callers |-> <<>>]

\* ScraperManager.__init__
\* every attribute but the registry, which the specifications vary
Constructed ==
    /\ clock = 0
    /\ performance = [n \in DOMAIN InitialConfigs |-> NewPerformance]
    /\ stats = [total_sessions |-> 0, total_jobs_found |-> 0,
                total_duplicates_removed |-> 0, error_count |-> 0]
    /\ sessions = <<>>
    /\ current_session = 0
    /\ session_history = <<>>
    /\ is_running = FALSE
    /\ should_stop = FALSE
    /\ job_hashes = {}
    /\ tasks = <<>>
    /\ shutdown = FALSE
    /\ pc = [c \in Callers |-> "idle"]
    /\ request = [c \in Callers |-> AutoRequest]
    /\ scrapers_to_use = [c \in Callers |-> <<>>]
    /\ futures = [c \in Callers |-> <<>>]
    /\ cursor = [c \in Callers |-> 1]
    /\ all_jobs = [c \in Callers |-> <<>>]
    /\ unique_jobs = [c \in Callers |-> <<>>]
    /\ dropped = [c \in Callers |-> 0]
    /\ waited = [c \in Callers |-> 0]
    /\ returned = [c \in Callers |-> NoReturn]
    /\ done_at_cancel = [c \in Callers |-> NotCancelled]
    /\ NothingSaved
    /\ refused = RefusedJobs
    /\ control_calls = 0
    /\ registry_call = "none"

Init ==
    /\ scraper_configs = InitialConfigs
    /\ Constructed

(***************************************************************************)
(* Registry operations.                                                    *)
(***************************************************************************)
\* one more of the MaxControlCalls control-method calls
ControlCall ==
    /\ control_calls < MaxControlCalls
    /\ control_calls' = control_calls + 1

\* enable_scraper(scraper_name, enabled)
enable_scraper(scraper_name, enabled) ==
    /\ scraper_configs' =
          IF scraper_name \in DOMAIN scraper_configs
          THEN [scraper_configs EXCEPT ![scraper_name].enabled = enabled]
          ELSE scraper_configs
    /\ registry_call' = "returned"
    /\ ControlCall
    /\ UNCHANGED <<clock, trackers, sessions, current_session, session_history,
                   is_running, should_stop, job_hashes, tasks, shutdown, pc,
                   locals, done_at_cancel>>

\* register_scraper(config), lines 158-168: the configuration is stored under
\* its name and the performance record of that name is a new one
register_scraper(config) ==
    /\ scraper_configs' =
          [n \in DOMAIN scraper_configs \cup {config.name} |->
              IF n = config.name
              THEN [enabled |-> config.enabled, priority |-> config.priority,
                    timeout_seconds |-> config.timeout_seconds]
              ELSE scraper_configs[n]]
    /\ performance' =
          [n \in DOMAIN performance \cup {config.name} |->
              IF n = config.name THEN NewPerformance ELSE performance[n]]
    /\ registry_call' = "returned"
    /\ UNCHANGED <<clock, control_calls, stats, sessions, current_session, session_history,
                   is_running, should_stop, job_hashes, tasks, shutdown, pc,
                   locals, done_at_cancel>>

(***************************************************************************)
(* search_jobs, one step per statement that touches shared state.          *)
(***************************************************************************)
\* search_jobs, lines 386-393: the session is created and made current
Begin(c, req) ==
    /\ pc[c] = "idle"
    /\ Len(sessions) < MaxSessions
    /\ sessions' = Append(sessions, NewSession)
    /\ current_session' = Len(sessions) + 1
    /\ request' = [request EXCEPT ![c] = req]
    /\ scrapers_to_use' = [scrapers_to_use EXCEPT ![c] = <<>>]
    /\ futures' = [futures EXCEPT ![c] = <<>>]
    /\ cursor' = [cursor EXCEPT ![c] = 1]
    /\ all_jobs' = [all_jobs EXCEPT ![c] = <<>>]
    /\ unique_jobs' = [unique_jobs EXCEPT ![c] = <<>>]
    /\ save_calls' = [save_calls EXCEPT ![c] = <<>>]
    /\ saved_job_ids' = [saved_job_ids EXCEPT ![c] = <<>>]
    /\ UNCHANGED refused
    /\ dropped' = [dropped EXCEPT ![c] = 0]
    /\ waited' = [waited EXCEPT ![c] = 0]
    /\ returned' = [returned EXCEPT ![c] = NoReturn]
    /\ done_at_cancel' = [done_at_cancel EXCEPT ![c] = NotCancelled]
    /\ pc' = [pc EXCEPT ![c] = "select"]
    /\ UNCHANGED <<clock, control_calls, registry, trackers, session_history, is_running, should_stop,
                   job_hashes, tasks, shutdown>>

\* a selection step that leaves out the sources that have scraped jobs before
\* (it reads the performance records), to test that the determinism of the
\* selection depends on what the selector reads
SelectByPerformance(c) ==
    /\ pc[c] = "select"
    /\ LET chosen == SelectSeq(select_scrapers(scraper_configs, request[c].query,
                                               request[c].specific_scrapers),
                               LAMBDA s : performance[s].jobs_scraped = 0)
       IN  /\ scrapers_to_use' = [scrapers_to_use EXCEPT ![c] = chosen]
           /\ sessions' = [sessions EXCEPT ![current_session].scrapers_used = chosen]
    /\ job_hashes' = {}
    /\ is_running' = TRUE
    /\ cursor' = [cursor EXCEPT ![c] = 1]
    /\ pc' = [pc EXCEPT ![c] = "submit"]
    /\ UNCHANGED <<clock, control_calls, registry, trackers, current_session, session_history,
                   should_stop, tasks, shutdown, request, futures, all_jobs,
                   unique_jobs, persisted, dropped, waited, returned, done_at_cancel>>

\* search_jobs, lines 400-404, and the head of _execute_parallel_scraping
Select(c) ==
    /\ pc[c] = "select"
    /\ LET chosen == select_scrapers(scraper_configs, request[c].query,
                                     request[c].specific_scrapers)
       IN  /\ scrapers_to_use' = [scrapers_to_use EXCEPT ![c] = chosen]
           /\ sessions' = [sessions EXCEPT ![current_session].scrapers_used = chosen]
    /\ job_hashes' = {}
    /\ is_running' = TRUE
    /\ cursor' = [cursor EXCEPT ![c] = 1]
    /\ pc' = [pc EXCEPT ![c] = "submit"]
    /\ UNCHANGED <<clock, control_calls, registry, trackers, current_session, session_history,
                   should_stop, tasks, shutdown, request, futures, all_jobs,
                   unique_jobs, persisted, dropped, waited, returned, done_at_cancel>>

\* the head of the submit loop: the next scraper, unless should_stop
SubmitCheck(c) ==
    /\ pc[c] = "submit"
    /\ IF cursor[c] > Len(scrapers_to_use[c]) \/ should_stop
       THEN /\ pc' = [pc EXCEPT ![c] = "collect"]
            /\ cursor' = [cursor EXCEPT ![c] = 1]
       ELSE /\ pc' = [pc EXCEPT ![c] = "submit_call"]
            /\ UNCHANGED cursor
    /\ UNCHANGED <<clock, control_calls, registry, trackers, sessions, current_session, session_history,
                   is_running, should_stop, job_hashes, tasks, shutdown, request,
                   scrapers_to_use, futures, all_jobs, unique_jobs, persisted, dropped,
                   waited, returned, done_at_cancel>>

\* self.executor.submit(self._run_single_scraper, scraper_name, ...)
Submit(c) ==
    /\ pc[c] = "submit_call"
    /\ ~shutdown
    /\ tasks' = Append(tasks, [name |-> scrapers_to_use[c][cursor[c]],
                               state |-> "pending", raised |-> FALSE,
                               result |-> <<>>, step |-> "scrape", seen |-> 0])
    /\ futures' = [futures EXCEPT ![c] = Append(@, Len(tasks) + 1)]
    /\ cursor' = [cursor EXCEPT ![c] = @ + 1]
    /\ pc' = [pc EXCEPT ![c] = "submit"]
    /\ UNCHANGED <<clock, control_calls, registry, trackers, sessions, current_session, session_history,
                   is_running, should_stop, job_hashes, shutdown, request,
                   scrapers_to_use, all_jobs, unique_jobs, persisted, dropped, waited,
                   returned, done_at_cancel>>

\* the except / finally clauses of search_jobs (lines 442-449)
SearchFails(c) ==
    /\ sessions' = [sessions EXCEPT ![current_session] =
                       [@ EXCEPT !.status = "failed",
                                 !.errors = Append(@, "exception"),
                                 !.end_time = TRUE]]
    /\ is_running' = FALSE
    /\ returned' = [returned EXCEPT ![c] = Raised]
    /\ pc' = [pc EXCEPT ![c] = "idle"]

\* executor.submit after shutdown raises RuntimeError, which search_jobs handles
SubmitRaises(c) ==
    /\ pc[c] = "submit_call"
    /\ shutdown
    /\ SearchFails(c)
    /\ UNCHANGED <<clock, control_calls, registry, trackers, current_session, session_history,
                   should_stop, job_hashes, tasks, shutdown, request,
                   scrapers_to_use, futures, cursor, all_jobs, unique_jobs, persisted,
                   dropped, waited, done_at_cancel>>

\* the collect loop: future.result(timeout=...) of a finished task
CollectResult(c) ==
    /\ pc[c] = "collect"
    /\ cursor[c] <= Len(futures[c])
    /\ tasks[futures[c][cursor[c]]].state = "finished"
    /\ all_jobs' = [all_jobs EXCEPT ![c] = @ \o tasks[futures[c][cursor[c]]].result]
    /\ cursor' = [cursor EXCEPT ![c] = @ + 1]
    /\ UNCHANGED <<clock, control_calls, registry, trackers, sessions, current_session, session_history,
                   is_running, should_stop, job_hashes, tasks, shutdown, pc,
                   request, scrapers_to_use, futures, unique_jobs, persisted, dropped,
                   waited, returned, done_at_cancel>>

\* the collect loop: future.result(timeout=...) raises TimeoutError after
\* timeout_seconds, and the except clause records it (lines 508-512)
CollectTimeout(c) ==
    /\ pc[c] = "collect"
    /\ cursor[c] <= Len(futures[c])
    /\ tasks[futures[c][cursor[c]]].state # "finished"
    /\ LET scraper_name == tasks[futures[c][cursor[c]]].name
       IN  /\ sessions' = [sessions EXCEPT ![current_session].errors =
                              Append(@, scraper_name)]
           /\ performance' = [performance EXCEPT ![scraper_name].error_count = @ + 1]
           /\ waited' = [waited EXCEPT ![c] =
                            @ + scraper_configs[scraper_name].timeout_seconds]
    /\ cursor' = [cursor EXCEPT ![c] = @ + 1]
    /\ UNCHANGED <<clock, control_calls, registry, stats, current_session, session_history, is_running,
                   should_stop, job_hashes, tasks, shutdown, pc, request,
                   scrapers_to_use, futures, all_jobs, unique_jobs, persisted, dropped,
                   returned, done_at_cancel>>

\* _execute_parallel_scraping returns all_jobs
ExecuteReturns(c) ==
    /\ pc[c] = "collect"
    /\ cursor[c] > Len(futures[c])
    /\ pc' = [pc EXCEPT ![c] = "dedupe"]
    /\ UNCHANGED <<clock, control_calls, registry, trackers, sessions, current_session, session_history,
                   is_running, should_stop, job_hashes, tasks, shutdown, locals,
                   done_at_cancel>>

\* unique_jobs = self._deduplicate_jobs(all_jobs)
Dedupe(c) ==
    /\ pc[c] = "dedupe"
    /\ LET r == deduplicate_jobs(all_jobs[c], job_hashes)
       IN  /\ unique_jobs' = [unique_jobs EXCEPT ![c] = r.unique_jobs]
           /\ dropped' = [dropped EXCEPT ![c] = r.dropped]
           /\ job_hashes' = r.job_hashes
    /\ pc' = [pc EXCEPT ![c] = "save"]
    /\ UNCHANGED <<clock, control_calls, registry, trackers, sessions, current_session, session_history,
                   is_running, should_stop, tasks, shutdown, request,
                   scrapers_to_use, futures, cursor, all_jobs, waited, returned,
                   persisted, done_at_cancel>>

\* saved_job_ids = self._save_jobs_to_database(unique_jobs)
Save(c) ==
    /\ pc[c] = "save"
    /\ LET r == save_jobs_to_database(unique_jobs[c], refused)
       IN  /\ save_calls' = [save_calls EXCEPT ![c] = r.calls]
           /\ saved_job_ids' = [saved_job_ids EXCEPT ![c] = r.saved_ids]
    /\ pc' = [pc EXCEPT ![c] = "set_found"]
    /\ UNCHANGED <<clock, control_calls, registry, trackers, sessions, current_session, session_history,
                   is_running, should_stop, job_hashes, tasks, shutdown, request,
                   scrapers_to_use, futures, cursor, all_jobs, unique_jobs, dropped,
                   waited, returned, refused, done_at_cancel>>

\* the statements of lines 420-424, each on whatever self.current_session is then
SessionWrite(c, from, to, session) ==
    /\ pc[c] = from
    /\ sessions' = [sessions EXCEPT ![current_session] = session]
    /\ pc' = [pc EXCEPT ![c] = to]
    /\ UNCHANGED <<clock, control_calls, registry, trackers, current_session, session_history,
                   is_running, should_stop, job_hashes, tasks, shutdown, locals,
                   done_at_cancel>>

\* self.current_session.jobs_found = len(all_jobs)
SetFound(c) ==
    SessionWrite(c, "set_found", "set_saved",
                 [sessions[current_session] EXCEPT !.jobs_found = Len(all_jobs[c])])

\* self.current_session.jobs_saved = len(unique_jobs)
SetSaved(c) ==
    SessionWrite(c, "set_saved", "set_duplicates",
                 [sessions[current_session] EXCEPT !.jobs_saved = Len(unique_jobs[c])])

\* self.current_session.duplicates_removed = len(all_jobs) - len(unique_jobs)
SetDuplicates(c) ==
    SessionWrite(c, "set_duplicates", "set_status",
                 [sessions[current_session] EXCEPT
                     !.duplicates_removed = Len(all_jobs[c]) - Len(unique_jobs[c])])

\* self.current_session.status = ScrapingStatus.COMPLETED
SetStatus(c) ==
    SessionWrite(c, "set_status", "set_end_time",
                 [sessions[current_session] EXCEPT !.status = "completed"])

\* self.current_session.end_time = datetime.now()
SetEndTime(c) ==
    SessionWrite(c, "set_end_time", "record",
                 [sessions[current_session] EXCEPT !.end_time = TRUE])

\* self._update_statistics(); self.session_history.append(self.current_session)
Record(c) ==
    /\ pc[c] = "record"
    /\ stats' = [stats EXCEPT
                    !.total_sessions = @ + 1,
                    !.total_jobs_found = @ + sessions[current_session].jobs_found,
                    !.total_duplicates_removed =
                        @ + sessions[current_session].duplicates_removed]
    /\ session_history' = Append(session_history, current_session)
    /\ pc' = [pc EXCEPT ![c] = "save_query"]
    /\ UNCHANGED <<clock, control_calls, registry, performance, sessions, current_session, is_running,
                   should_stop, job_hashes, tasks, shutdown, locals, done_at_cancel>>

\* db_manager.save_search_query succeeds; return self.current_session
Return(c) ==
    /\ pc[c] = "save_query"
    /\ returned' = [returned EXCEPT ![c] = current_session]
    /\ is_running' = FALSE
    /\ pc' = [pc EXCEPT ![c] = "idle"]
    /\ UNCHANGED <<clock, control_calls, registry, trackers, sessions, current_session, session_history,
                   should_stop, job_hashes, tasks, shutdown, request,
                   scrapers_to_use, futures, cursor, all_jobs, unique_jobs, persisted,
                   dropped, waited, done_at_cancel>>

\* db_manager.save_search_query raises (sqlite3 error)
SaveQueryRaises(c) ==
    /\ pc[c] = "save_query"
    /\ SearchFails(c)
    /\ UNCHANGED <<clock, control_calls, registry, trackers, current_session, session_history,
                   should_stop, job_hashes, tasks, shutdown, request,
                   scrapers_to_use, futures, cursor, all_jobs, unique_jobs, persisted,
                   dropped, waited, done_at_cancel>>

(***************************************************************************)
(* The executor's worker threads.                                          *)
(***************************************************************************)
Running == {t \in 1..Len(tasks) : tasks[t].state = "running"}
Pending == {t \in 1..Len(tasks) : tasks[t].state = "pending"}

\* an executor with one worker more than max_workers, to test that the bound
\* on running tasks depends on the size of the pool
WorkerAvailableOneMore == Cardinality(Running) <= max_workers

\* ThreadPoolExecutor: a worker may take a work item while fewer than
\* max_workers are busy
WorkerAvailable == Cardinality(Running) < max_workers

\* a worker takes the oldest queued work item and enters _run_single_scraper
TaskStart(t) ==
    /\ t \in Pending
    /\ \A u \in Pending : t <= u
    /\ WorkerAvailable
    /\ tasks' = [tasks EXCEPT ![t].state = "running"]
    /\ UNCHANGED <<clock, control_calls, registry, trackers, sessions, current_session, session_history,
                   is_running, should_stop, job_hashes, shutdown, pc, locals,
                   done_at_cancel>>

\* _run_single_scraper: scrape_jobs returned jobs (lines 541-546)
TaskSucceeds(t) ==
    /\ t \in Running
    /\ LET jobs == Catalogue(tasks[t].name)
       IN  /\ tasks' = [tasks EXCEPT ![t] = [@ EXCEPT !.state = "finished",
                                                     !.result = jobs]]
           /\ performance' = [performance EXCEPT
                                 ![tasks[t].name].jobs_scraped = @ + Len(jobs)]
    /\ UNCHANGED <<clock, control_calls, registry, stats, sessions, current_session, session_history,
                   is_running, should_stop, job_hashes, shutdown, pc, locals,
                   done_at_cancel>>

\* _run_single_scraper: scrape_jobs raised; the except clause returns []
\* (lines 548-552)
TaskRaises(t) ==
    /\ t \in Running
    /\ tasks' = [tasks EXCEPT ![t] = [@ EXCEPT !.state = "finished",
                                                  !.raised = TRUE,
                                                  !.result = <<>>]]
    /\ performance' = [performance EXCEPT ![tasks[t].name].error_count = @ + 1]
    /\ stats' = [stats EXCEPT !.error_count = @ + 1]
    /\ UNCHANGED <<clock, control_calls, registry, sessions, current_session, session_history,
                   is_running, should_stop, job_hashes, shutdown, pc, locals,
                   done_at_cancel>>

\* _run_single_scraper statement by statement. `x += n` on a dict entry is a
\* read, an addition and a store, and another thread can run between the
\* read and the store; TaskSucceeds and TaskRaises above take the statements
\* of a path as one step, the steps below take each read and each store as
\* one. tasks[t].step is the statement the task is at, tasks[t].seen the
\* value it has read.
TaskAt(t, step) == t \in Running /\ tasks[t].step = step

TaskMoves(t, step, seen, result) ==
    tasks' = [tasks EXCEPT ![t] = [@ EXCEPT !.step = step, !.seen = seen,
                                            !.result = result]]

TaskEnds(t, raised) ==
    tasks' = [tasks EXCEPT ![t] = [@ EXCEPT !.state = "finished", !.step = "done",
                                            !.raised = raised]]

WorkerUnchanged ==
    UNCHANGED <<clock, control_calls, registry, sessions, current_session, session_history,
                is_running, should_stop, job_hashes, shutdown, pc, locals,
                done_at_cancel>>

\* scrape_jobs returned; line 543 reads perf['jobs_scraped']
TaskReadsScraped(t) ==
    /\ TaskAt(t, "scrape")
    /\ TaskMoves(t, "store_scraped", performance[tasks[t].name].jobs_scraped,
                 Catalogue(tasks[t].name))
    /\ UNCHANGED trackers
    /\ WorkerUnchanged

\* line 543 stores perf['jobs_scraped']; return jobs
TaskStoresScraped(t) ==
    /\ TaskAt(t, "store_scraped")
    /\ performance' = [performance EXCEPT ![tasks[t].name].jobs_scraped =
                          tasks[t].seen + Len(tasks[t].result)]
    /\ TaskEnds(t, FALSE)
    /\ UNCHANGED stats
    /\ WorkerUnchanged

\* scrape_jobs raised; line 550 reads the source's error_count
TaskReadsSourceErrors(t) ==
    /\ TaskAt(t, "scrape")
    /\ TaskMoves(t, "store_source_errors", performance[tasks[t].name].error_count, <<>>)
    /\ UNCHANGED trackers
    /\ WorkerUnchanged

\* line 550 stores the source's error_count
TaskStoresSourceErrors(t) ==
    /\ TaskAt(t, "store_source_errors")
    /\ performance' = [performance EXCEPT ![tasks[t].name].error_count = tasks[t].seen + 1]
    /\ TaskMoves(t, "read_errors", 0, <<>>)
    /\ UNCHANGED stats
    /\ WorkerUnchanged

\* line 551 reads self.stats['error_count']
TaskReadsErrors(t) ==
    /\ TaskAt(t, "read_errors")
    /\ TaskMoves(t, "store_errors", stats.error_count, <<>>)
    /\ UNCHANGED trackers
    /\ WorkerUnchanged

\* line 551 stores self.stats['error_count']; return []
TaskStoresErrors(t) ==
    /\ TaskAt(t, "store_errors")
    /\ stats' = [stats EXCEPT !.error_count = tasks[t].seen + 1]
    /\ TaskEnds(t, TRUE)
    /\ UNCHANGED performance
    /\ WorkerUnchanged

(***************************************************************************)
(* Control methods, called from any thread.                                *)
(***************************************************************************)
\* pause_scraping()
pause_scraping ==
    /\ current_session # 0
    /\ sessions[current_session].status = "running"
    /\ sessions' = [sessions EXCEPT ![current_session].status = "paused"]
    /\ ControlCall
    /\ UNCHANGED <<clock, registry, trackers, current_session, session_history,
                   is_running, should_stop, job_hashes, tasks, shutdown, pc,
                   locals, done_at_cancel>>

\* resume_scraping()
resume_scraping ==
    /\ current_session # 0
    /\ sessions[current_session].status = "paused"
    /\ sessions' = [sessions EXCEPT ![current_session].status = "running"]
    /\ ControlCall
    /\ UNCHANGED <<clock, registry, trackers, current_session, session_history,
                   is_running, should_stop, job_hashes, tasks, shutdown, pc,
                   locals, done_at_cancel>>

\* the threads that are inside _execute_parallel_scraping
Executing == {c \in Callers : pc[c] \in {"submit", "submit_call", "collect"}}

\* the futures of c whose task has finished
Finished(c) == {i \in 1..Len(futures[c]) : tasks[futures[c][i]].state = "finished"}

\* history kept for the cancellation property: the first cancel_scraping that
\* hits an execution notes which of its futures had finished
NoteCancel ==
    done_at_cancel' =
        [c \in Callers |->
            IF c \in Executing /\ done_at_cancel[c] = NotCancelled
            THEN <<"cancelled", Finished(c), Len(futures[c])>>
            ELSE done_at_cancel[c]]

\* cancel_scraping()
cancel_scraping ==
    /\ should_stop' = TRUE
    /\ sessions' =
          IF current_session # 0
          THEN [sessions EXCEPT ![current_session] =
                   [@ EXCEPT !.status = "cancelled", !.end_time = TRUE]]
          ELSE sessions
    /\ NoteCancel
    /\ ControlCall
    /\ UNCHANGED <<clock, registry, trackers, current_session, session_history,
                   is_running, job_hashes, tasks, shutdown, pc, locals>>

\* close(): executor.shutdown(wait=True) lets the queued work items run and
\* refuses new ones; self.scrapers is empty
close ==
    /\ ~shutdown
    /\ should_stop' = TRUE
    /\ sessions' =
          IF current_session # 0 /\ sessions[current_session].status = "running"
          THEN [sessions EXCEPT ![current_session] =
                   [@ EXCEPT !.status = "cancelled", !.end_time = TRUE]]
          ELSE sessions
    /\ shutdown' = TRUE
    /\ ControlCall
    /\ UNCHANGED <<clock, registry, trackers, current_session, session_history,
                   is_running, job_hashes, tasks, pc, locals, done_at_cancel>>

\* cleanup_old_sessions(days_to_keep): keeps the sessions that started after
\* the cutoff
cleanup_old_sessions(days) ==
    /\ session_history' =
          SelectSeq(session_history,
                    LAMBDA s : sessions[s].start_time > clock - days * SecondsPerDay)
    /\ UNCHANGED <<clock, control_calls, registry, trackers, sessions, current_session,
                   is_running, should_stop, job_hashes, tasks, shutdown, pc, locals,
                   done_at_cancel>>

\* time passes: a second, or a day more than the retention window
Advance ==
    /\ \/ /\ clock % SecondsPerDay < MaxTicks
          /\ clock' = clock + 1
       \/ /\ clock \div SecondsPerDay < MaxJumps * (days_to_keep + 1)
          /\ clock' = clock + (days_to_keep + 1) * SecondsPerDay
    /\ UNCHANGED <<control_calls, registry, trackers, sessions, current_session,
                   session_history, is_running, should_stop, job_hashes, tasks,
                   shutdown, pc, locals, done_at_cancel>>

(***************************************************************************)
(* The specifications.                                                     *)
(***************************************************************************)
\* one thread inside search_jobs, called with a request of reqs
SearchStep(c, reqs) ==
    \/ \E req \in reqs : Begin(c, req)
    \/ Select(c)
    \/ SubmitCheck(c)
    \/ Submit(c)
    \/ CollectResult(c)
    \/ CollectTimeout(c)
    \/ ExecuteReturns(c)
    \/ Dedupe(c)
    \/ Save(c)
    \/ SetFound(c)
    \/ SetSaved(c)
    \/ SetDuplicates(c)
    \/ SetStatus(c)
    \/ SetEndTime(c)
    \/ Record(c)
    \/ Return(c)
    \/ SaveQueryRaises(c)

\* the executor's workers
WorkerStep ==
    \/ \E t \in 1..Len(tasks) : TaskStart(t)
    \/ \E t \in 1..Len(tasks) : TaskSucceeds(t)
    \/ \E t \in 1..Len(tasks) : TaskRaises(t)

\* a control method is called from another thread
ControlStep ==
    \/ \E n \in EnableNames, flag \in BOOLEAN : enable_scraper(n, flag)
    \/ pause_scraping
    \/ resume_scraping
    \/ cancel_scraping
    \/ close

\* The owning thread searches, one call after the other, while the control
\* methods are called from another thread.
Next ==
    \/ SearchStep("caller", Requests)
    \/ SubmitRaises("caller")
    \/ WorkerStep
    \/ ControlStep

Spec == Init /\ [][Next]_vars

\* The two daemon threads of setup_automated_job_hunting search concurrently
\* on one manager on which Indeed has been disabled.
BackgroundThreads == {"scheduler", "monitor"}

InitThreads ==
    /\ scraper_configs = [InitialConfigs EXCEPT !["Indeed"].enabled = FALSE]
    /\ Constructed

NextThreads ==
    \/ \E c \in BackgroundThreads : SearchStep(c, {AutoRequest})
    \/ WorkerStep

SpecThreads == InitThreads /\ [][NextThreads]_vars

\* The two daemon threads each search PoolWidth named sources at once, so
\* that more tasks are submitted than the executor has workers.
PoolRequest == [query |-> EmptyQuery,
                specific_scrapers |-> SubSeq(RegisteredNames, 6, 5 + PoolWidth)]

PoolStep(c) ==
    \/ Begin(c, PoolRequest)
    \/ Select(c)
    \/ SubmitCheck(c)
    \/ Submit(c)
    \/ CollectResult(c)
    \/ CollectTimeout(c)
    \/ ExecuteReturns(c)

NextPool ==
    \/ \E c \in BackgroundThreads : PoolStep(c)
    \/ \E t \in 1..Len(tasks) : TaskStart(t)
    \/ \E t \in 1..Len(tasks) : TaskSucceeds(t)

SpecPool == Init /\ [][NextPool]_vars

\* _deduplicate_jobs alone: a thread is about to deduplicate any list of raw
\* results of up to MaxLen jobs, with any fingerprints already in job_hashes
\* (another thread's search may have put them there).
RECURSIVE SeqsUpTo(_, _)
SeqsUpTo(S, n) ==
    IF n = 0 THEN {<<>>}
    ELSE LET shorter == SeqsUpTo(S, n - 1)
         IN  shorter \cup {Append(s, x) : s \in {q \in shorter : Len(q) = n - 1}, x \in S}

Fingerprints(jobs) == {create_job_hash(jobs[i]) : i \in 1..Len(jobs)}

\* search_jobs at line 410, with any list of collected jobs
AtDedupe ==
    /\ scraper_configs = InitialConfigs
    /\ performance = [n \in DOMAIN InitialConfigs |-> NewPerformance]
    /\ stats = [total_sessions |-> 0, total_jobs_found |-> 0,
                total_duplicates_removed |-> 0, error_count |-> 0]
    /\ clock = 0
    /\ session_history = <<>>
    /\ sessions = <<NewSession>>
    /\ current_session = 1
    /\ is_running = TRUE
    /\ should_stop = FALSE
    /\ job_hashes \in SUBSET {create_job_hash(j) : j \in JobPool}
    /\ tasks = <<>>
    /\ shutdown = FALSE
    /\ pc = [c \in Callers |-> IF c = "caller" THEN "dedupe" ELSE "idle"]
    /\ request = [c \in Callers |-> AutoRequest]
    /\ scrapers_to_use = [c \in Callers |-> <<>>]
    /\ futures = [c \in Callers |-> <<>>]
    /\ cursor = [c \in Callers |-> 1]
    /\ \E jobs \in SeqsUpTo(JobPool, MaxLen) :
          all_jobs = [c \in Callers |-> IF c = "caller" THEN jobs ELSE <<>>]
    /\ unique_jobs = [c \in Callers |-> <<>>]
    /\ dropped = [c \in Callers |-> 0]
    /\ waited = [c \in Callers |-> 0]
    /\ returned = [c \in Callers |-> NoReturn]
    /\ done_at_cancel = [c \in Callers |-> NotCancelled]
    /\ NothingSaved
    /\ control_calls = 0
    /\ registry_call = "none"

InitDedup ==
    /\ AtDedupe
    /\ refused = RefusedJobs

NextDedup == Dedupe("caller")

SpecDedup == InitDedup /\ [][NextDedup]_vars

(***************************************************************************)
(* Properties.                                                             *)
(***************************************************************************)
\* the selected sources' timeouts, added up
RECURSIVE SumTimeouts(_)
SumTimeouts(names) ==
    IF names = <<>> THEN 0
    ELSE scraper_configs[Head(names)].timeout_seconds + SumTimeouts(Tail(names))

\* the program points of search_jobs after _execute_parallel_scraping returned
AfterExecute == {"dedupe", "save", "set_found", "set_saved", "set_duplicates",
                 "set_status", "set_end_time", "record", "save_query"}

\* C1 (isolation): when a search selects two sources, the adapter of one
\* raises and the adapter of the other returns its results in time, the
\* session that search_jobs returns is completed, its errors list has exactly
\* one entry and that entry names the source that raised, and the unique
\* results are the deduplicated results of the other source.
C1_IsolationOfFailingAdapter ==
    \A a, b \in 1..Len(tasks) :
        ( /\ pc["caller"] = "idle"
          /\ returned["caller"] \in 1..Len(sessions)
          /\ control_calls = 0
          /\ waited["caller"] = 0
          /\ futures["caller"] \in {<<a, b>>, <<b, a>>}
          /\ tasks[a].state = "finished" /\ tasks[a].raised
          /\ tasks[b].state = "finished" /\ ~tasks[b].raised )
        => /\ sessions[returned["caller"]].status = "completed"
           /\ sessions[returned["caller"]].errors = <<tasks[a].name>>
           /\ unique_jobs["caller"] = deduplicate_jobs(tasks[b].result, {}).unique_jobs

\* C2 (never invoked while disabled): every source that the selection step of
\* a search hands over for submission to the executor is registered and has
\* enabled = TRUE in scraper_configs at the time of the selection (every
\* submitted task is for a name of scrapers_to_use).
C2_NeverInvokedWhileDisabled ==
    [][\A c \in Callers :
          (pc[c] = "select" /\ pc'[c] = "submit") =>
              \A i \in 1..Len(scrapers_to_use'[c]) :
                  IsEnabled(scraper_configs, scrapers_to_use'[c][i])]_vars

\* C3 (session lifecycle): once a session is in a terminal state (completed,
\* failed or cancelled), its status, end_time, counts and error list never
\* change again.
C3_TerminalSessionImmutable ==
    [][\A i \in 1..Len(sessions) :
          sessions[i].status \in Terminal =>
              /\ sessions'[i].status = sessions[i].status
              /\ sessions'[i].end_time = sessions[i].end_time
              /\ sessions'[i].jobs_found = sessions[i].jobs_found
              /\ sessions'[i].jobs_saved = sessions[i].jobs_saved
              /\ sessions'[i].duplicates_removed = sessions[i].duplicates_removed
              /\ sessions'[i].errors = sessions[i].errors]_vars

\* C4 (cooperative cancellation): when cancel_scraping() is called while a
\* search has adapter tasks in flight, the execute call returns with the
\* results of the tasks that had finished at the cancel only: no result of a
\* task that was still pending or running at the cancel is collected.
C4_CancelStopsCollection ==
    \A c \in Callers :
        (pc[c] = "dedupe" /\ done_at_cancel[c] # NotCancelled) =>
            \A i \in 1..Len(futures[c]) :
                i \notin done_at_cancel[c][2] =>
                    \A k \in 1..Len(all_jobs[c]) :
                        all_jobs[c][k].source # tasks[futures[c][i]].name

\* C5 (per-source timeout): an adapter task whose result was not there within
\* its source's timeout_seconds, so that the timeout was recorded in the
\* session's errors, is cancelled: it is neither queued nor running on a
\* worker afterwards.
C5_TimedOutTaskIsCancelled ==
    \A i \in 1..Len(futures["caller"]) :
        LET task == tasks[futures["caller"][i]]
        IN  ( /\ current_session # 0
              /\ \E k \in 1..Len(sessions[current_session].errors) :
                    sessions[current_session].errors[k] = task.name )
            => task.state = "finished"

\* C6 (timeout containment): when a selected adapter never returns, the
\* execute call of a search over two or more sources returns after a wait
\* that stays below the sum of the per-source timeouts of the selected
\* sources.
C6_WaitBelowSumOfTimeouts ==
    \A c \in Callers :
        ( /\ pc[c] = "dedupe"
          /\ Len(futures[c]) >= 2
          /\ Len(futures[c]) = Len(scrapers_to_use[c])
          /\ \E i \in 1..Len(futures[c]) : tasks[futures[c][i]].state # "finished" )
        => waited[c] < SumTimeouts(scrapers_to_use[c])

\* C7 (fan-in completeness): once _execute_parallel_scraping has returned, no
\* task that this invocation submitted is still pending or running.
C7_NoTaskOutlivesExecute ==
    \A c \in Callers :
        pc[c] \in AfterExecute =>
            \A i \in 1..Len(futures[c]) : tasks[futures[c][i]].state = "finished"

\* C8 (bounded parallelism): at no time are more than max_workers adapter
\* tasks running, however many tasks concurrent searches have submitted to
\* the shared executor.
C8_BoundedParallelism == Cardinality(Running) <= max_workers

\* all max_workers workers are busy and a task of the other of two searches
\* that are executing at the same time waits in the queue
C8_PoolSaturated ==
    /\ Cardinality(Running) = max_workers
    /\ Pending # {}
    /\ BackgroundThreads \subseteq Executing
    /\ Len(tasks) > max_workers

\* C9 (count consistency): when no search is in progress, every session in a
\* terminal state has jobs_saved + duplicates_removed = jobs_found.
C9_CountsConsistent ==
    (\A c \in Callers : pc[c] = "idle") =>
        \A i \in 1..Len(sessions) :
            sessions[i].status \in Terminal =>
                sessions[i].jobs_saved + sessions[i].duplicates_removed
                    = sessions[i].jobs_found

\* what _deduplicate_jobs guarantees for its input, its survivors and the
\* number of results it dropped
DedupCounts(input, survivors, n) == Len(survivors) + n = Len(input)

DedupDistinct(survivors) ==
    \A i, j \in 1..Len(survivors) :
        i # j => create_job_hash(survivors[i]) # create_job_hash(survivors[j])

\* C10 (deduplication), as the code has it: for any list of raw results, the
\* survivors and the number of dropped results add up to the input, no two
\* survivors share a fingerprint, and every fingerprint of the input is the
\* fingerprint of a survivor, or was in job_hashes before the call, or is the
\* fingerprint of a result whose URL is the URL of a survivor.
C10_DedupCorrect ==
    [][(pc["caller"] = "dedupe" /\ pc'["caller"] = "save") =>
          LET input == all_jobs["caller"]
              survivors == unique_jobs'["caller"]
          IN  /\ DedupCounts(input, survivors, dropped'["caller"])
              /\ DedupDistinct(survivors)
              /\ \A i \in 1..Len(input) :
                    \/ create_job_hash(input[i]) \in Fingerprints(survivors)
                    \/ create_job_hash(input[i]) \in job_hashes
                    \/ \E k \in 1..Len(survivors) :
                          survivors[k].url = input[i].url]_vars

\* _deduplicate_jobs has dropped a result by its URL, and the fingerprint of
\* that result is the fingerprint of no survivor
C10_DroppedByUrl ==
    /\ pc["caller"] = "save"
    /\ dropped["caller"] >= 1
    /\ \E i \in 1..Len(all_jobs["caller"]) :
          /\ create_job_hash(all_jobs["caller"][i])
                \notin Fingerprints(unique_jobs["caller"])
          /\ \E k \in 1..Len(unique_jobs["caller"]) :
                unique_jobs["caller"][k].url = all_jobs["caller"][i].url

\* C10 (deduplication), as the specification has it: the survivors and the
\* number of dropped results add up to the input, no two survivors share a
\* fingerprint, and every fingerprint of the input is the fingerprint of a
\* survivor.
C10_EveryFingerprintSurvives ==
    [][(pc["caller"] = "dedupe" /\ pc'["caller"] = "save") =>
          LET input == all_jobs["caller"]
              survivors == unique_jobs'["caller"]
          IN  /\ DedupCounts(input, survivors, dropped'["caller"])
              /\ DedupDistinct(survivors)
              /\ \A i \in 1..Len(input) :
                    create_job_hash(input[i]) \in Fingerprints(survivors)]_vars

\* the lists that are a permutation of jobs
Reorderings(jobs) ==
    {[i \in 1..Len(jobs) |-> jobs[p[i]]] :
        p \in {q \in [1..Len(jobs) -> 1..Len(jobs)] :
                  \A i, j \in 1..Len(jobs) : q[i] = q[j] => i = j}}

\* results of jobs that share a URL share their fingerprint
UrlsFollowFingerprints(jobs) ==
    \A i, j \in 1..Len(jobs) :
        jobs[i].url = jobs[j].url
            => create_job_hash(jobs[i]) = create_job_hash(jobs[j])

\* C11 (order-insensitivity), as the code has it: for any list of raw results
\* in which results with the same URL have the same fingerprint, and any
\* permutation of it, _deduplicate_jobs started from the same job_hashes
\* returns survivors with the same set of fingerprints.
C11_OrderInsensitive ==
    [][(pc["caller"] = "dedupe" /\ pc'["caller"] = "save"
            /\ UrlsFollowFingerprints(all_jobs["caller"])) =>
          \A other \in Reorderings(all_jobs["caller"]) :
              Fingerprints(deduplicate_jobs(other, job_hashes).unique_jobs)
                  = Fingerprints(unique_jobs'["caller"])]_vars

\* _deduplicate_jobs has dropped a duplicate from a list of different results,
\* in which results with the same URL have the same fingerprint
C11_DuplicateAmongPermutable ==
    /\ pc["caller"] = "save"
    /\ dropped["caller"] >= 1
    /\ Len(unique_jobs["caller"]) >= 2
    /\ UrlsFollowFingerprints(all_jobs["caller"])
    /\ Cardinality(Reorderings(all_jobs["caller"])) > 1

\* C11 (order-insensitivity), as the specification has it: for any list of
\* raw results and any permutation of it, _deduplicate_jobs started from the
\* same job_hashes returns survivors with the same set of fingerprints.
C11_OrderInsensitiveForAnyList ==
    [][(pc["caller"] = "dedupe" /\ pc'["caller"] = "save") =>
          \A other \in Reorderings(all_jobs["caller"]) :
              Fingerprints(deduplicate_jobs(other, job_hashes).unique_jobs)
                  = Fingerprints(unique_jobs'["caller"])]_vars

\* C12 (deduplication is scoped to the session): a result of a search is
\* dropped only for a result of the same search: after _deduplicate_jobs,
\* every raw result of the search has its fingerprint or its URL among the
\* survivors of that search, also when two searches run concurrently.
C12_DropsOnlyWithinSession ==
    \A c \in Callers :
        pc[c] = "save" =>
            \A i \in 1..Len(all_jobs[c]) :
                \E k \in 1..Len(unique_jobs[c]) :
                    \/ create_job_hash(unique_jobs[c][k]) = create_job_hash(all_jobs[c][i])
                    \/ unique_jobs[c][k].url = all_jobs[c][i].url

\* C13 (all sources fail): when the adapter of every selected source raised
\* or did not return in time, the session that search_jobs returns is
\* completed, has no found and no unique results, and its errors list has
\* one entry per selected source, naming it.
C13_AllSourcesFail ==
    LET c == "caller"
        failed(t) == \/ tasks[t].state = "finished" /\ tasks[t].raised
                     \/ tasks[t].state # "finished"
    IN  ( /\ pc[c] = "idle"
          /\ returned[c] \in 1..Len(sessions)
          /\ control_calls = 0
          /\ Len(futures[c]) >= 1
          /\ Len(futures[c]) = Len(scrapers_to_use[c])
          /\ \A i \in 1..Len(futures[c]) : failed(futures[c][i]) )
        => /\ sessions[returned[c]].status = "completed"
           /\ sessions[returned[c]].jobs_found = 0
           /\ sessions[returned[c]].jobs_saved = 0
           /\ Len(sessions[returned[c]].errors) = Len(futures[c])
           /\ \A i \in 1..Len(futures[c]) :
                 \E k \in 1..Len(sessions[returned[c]].errors) :
                     sessions[returned[c]].errors[k] = tasks[futures[c][i]].name

\* C14 (session monotonicity): a terminal transition attempted on the current
\* session when it is already terminal (cancel_scraping, or the completion of
\* search_jobs at line 423) leaves the session unchanged.
C14_SecondTransitionRefused ==
    [][( /\ current_session # 0
         /\ sessions[current_session].status \in Terminal
         /\ (cancel_scraping \/ \E c \in Callers : SetStatus(c)) )
          => sessions'[current_session] = sessions[current_session]]_vars

\* The owning thread searches Dice, one call after the other, while sources
\* are registered and enabled or disabled.
NextRegistry ==
    \/ \E config \in RegisterConfigs : register_scraper(config)
    \/ \E n \in EnableNames \cup {"Dice"}, flag \in BOOLEAN : enable_scraper(n, flag)
    \/ SearchStep("caller", {SpecificRequest})
    \/ WorkerStep

SpecRegistry == Init /\ [][NextRegistry]_vars

\* C15 (duplicate registration): register_scraper for a name that is already
\* registered leaves the descriptor of that name and its performance record
\* unchanged.
C15_DuplicateRegistrationRefused ==
    [][\A config \in RegisterConfigs :
          (register_scraper(config) /\ config.name \in DOMAIN scraper_configs)
              => /\ scraper_configs' = scraper_configs
                 /\ performance' = performance]_vars

\* C16 (unknown source): enable_scraper for a name that is not registered
\* ends with UnknownSourceError and leaves the registered names and every
\* descriptor's enabled flag unchanged.
C16_UnknownSourceRefused ==
    [][\A n \in EnableNames, flag \in BOOLEAN :
          (enable_scraper(n, flag) /\ n \notin DOMAIN scraper_configs)
              => /\ registry_call' = "UnknownSourceError"
                 /\ scraper_configs' = scraper_configs]_vars

\* _select_scrapers alone: a thread is about to select the sources of any of
\* these searches, on a registry in which any of these sources are disabled.
SelectJobTypes ==
    {<<>>, <<"freelance">>, <<"it", "civil">>, <<"freelance", "it", "civil">>,
     <<"marketing">>}

Sydney == <<"S","y","d","n","e","y">>
London == <<"L","o","n","d","o","n">>
Berlin == <<"B","e","r","l","i","n">>
Paris == <<"P","a","r","i","s">>
LondonOrSydney == <<"L","o","n","d","o","n"," ","o","r"," ","S","y","d","n","e","y">>

SelectLocations ==
    {<<>>, <<Sydney>>, <<London, Berlin>>, <<LondonOrSydney>>, <<Paris>>}

SelectQueries ==
    [job_types : SelectJobTypes, locations : SelectLocations, remote_only : BOOLEAN]

\* specific_scrapers: none, an unregistered name, more names than the
\* selector's limit, a name twice
SpecificLists ==
    {<<>>, <<"Dice", "Bogus">>, Take(RegisteredNames, SelectionLimit + 1),
     <<"Dice", "Dice">>}

SelectRequests == [query : SelectQueries, specific_scrapers : SpecificLists]

DisabledSets == SUBSET {"LinkedIn", "Indeed", "Upwork", "Seek", "RemoteOK"}

InitSelect ==
    /\ \E off \in DisabledSets :
          scraper_configs =
              [n \in DOMAIN InitialConfigs |->
                  [InitialConfigs[n] EXCEPT !.enabled = n \notin off]]
    /\ registry_call = "none"
    /\ performance = [n \in DOMAIN InitialConfigs |-> NewPerformance]
    /\ stats = [total_sessions |-> 0, total_jobs_found |-> 0,
                total_duplicates_removed |-> 0, error_count |-> 0]
    /\ clock = 0
    /\ session_history = <<>>
    /\ sessions = <<NewSession>>
    /\ current_session = 1
    /\ is_running = FALSE
    /\ should_stop = FALSE
    /\ job_hashes = {}
    /\ tasks = <<>>
    /\ shutdown = FALSE
    /\ pc = [c \in Callers |-> IF c = "caller" THEN "select" ELSE "idle"]
    /\ \E req \in SelectRequests :
          request = [c \in Callers |-> IF c = "caller" THEN req ELSE AutoRequest]
    /\ scrapers_to_use = [c \in Callers |-> <<>>]
    /\ futures = [c \in Callers |-> <<>>]
    /\ cursor = [c \in Callers |-> 1]
    /\ all_jobs = [c \in Callers |-> <<>>]
    /\ unique_jobs = [c \in Callers |-> <<>>]
    /\ dropped = [c \in Callers |-> 0]
    /\ waited = [c \in Callers |-> 0]
    /\ returned = [c \in Callers |-> NoReturn]
    /\ done_at_cancel = [c \in Callers |-> NotCancelled]
    /\ NothingSaved
    /\ refused = RefusedJobs
    /\ control_calls = 0

NextSelect == Select("caller")

SpecSelect == InitSelect /\ [][NextSelect]_vars

\* the names of a list
Names(seq) == {seq[i] : i \in 1..Len(seq)}

\* the selection step of the caller's search has just run
Selected == pc["caller"] = "submit" /\ cursor["caller"] = 1

\* C17 (selection is bounded): the list of sources that search_jobs selects
\* for invocation holds no name twice and at most 8 names, also when
\* specific_scrapers is supplied.
C17_SelectionBounded ==
    Selected =>
        /\ Len(scrapers_to_use["caller"]) <= SelectionLimit
        /\ \A i, j \in 1..Len(scrapers_to_use["caller"]) :
              scrapers_to_use["caller"][i] = scrapers_to_use["caller"][j] => i = j

\* C18 (core set is always included): for every search request and registry,
\* every core source that is registered and enabled is in the result of
\* get_scrapers_for_search, so that with a core source enabled the result is
\* not empty; and it is among the sources that search_jobs selects when no
\* specific_scrapers are supplied.
C18_CoreAlwaysIncluded ==
    LET req == request["caller"]
        auto == get_scrapers_for_search(scraper_configs, req.query)
        core == {s \in Names(CoreScrapers) : IsEnabled(scraper_configs, s)}
    IN  /\ core \subseteq Names(auto)
        /\ core # {} => auto # <<>>
        /\ (Selected /\ req.specific_scrapers = <<>>)
              => core \subseteq Names(scrapers_to_use["caller"])

\* a search for three job types that is remote-only has been cut to the
\* limit, with LinkedIn disabled and Indeed enabled and selected
C18_CoreKeptWhenCut ==
    /\ Selected
    /\ request["caller"].specific_scrapers = <<>>
    /\ Len(request["caller"].query.job_types) = 3
    /\ request["caller"].query.remote_only
    /\ Len(scrapers_to_use["caller"]) = SelectionLimit
    /\ ~IsEnabled(scraper_configs, "LinkedIn")
    /\ "Indeed" \in Names(scrapers_to_use["caller"])

\* the static affinity of a source matches the query: its job category is
\* among the job types, or a location names its locale, or it is a remote
\* platform and the query is remote-only
NamesLocale(location, words) == ContainsAny(Lower(location), words)

AffinityMatches(s, query) ==
    \/ \E i \in 1..Len(query.job_types) :
          s \in Names(ScrapersForJobType(query.job_types[i]))
    \/ \E i \in 1..Len(query.locations) :
          \/ s \in Names(AustraliaScrapers) /\ NamesLocale(query.locations[i], AustraliaWords)
          \/ s \in Names(UKScrapers) /\ NamesLocale(query.locations[i], UKWords)
          \/ s \in Names(GermanyScrapers) /\ NamesLocale(query.locations[i], GermanyWords)
    \/ s \in Names(RemoteScrapers) /\ query.remote_only

\* C19 (affinity-based selection): when search_jobs selects automatically
\* (the result of get_scrapers_for_search is not empty), a source that is not
\* a core source is selected only if it is enabled and its affinity matches
\* the query, and every enabled source whose affinity matches is selected
\* unless the selection was cut to the limit of 8.
C19_AffinitySelection ==
    LET query == request["caller"].query
        chosen == scrapers_to_use["caller"]
        others == DOMAIN scraper_configs \ Names(CoreScrapers)
    IN  ( /\ Selected
          /\ request["caller"].specific_scrapers = <<>>
          /\ get_scrapers_for_search(scraper_configs, query) # <<>> )
        => /\ \A s \in Names(chosen) \ Names(CoreScrapers) :
                 IsEnabled(scraper_configs, s) /\ AffinityMatches(s, query)
           /\ Len(chosen) < SelectionLimit =>
                 \A s \in others :
                     (IsEnabled(scraper_configs, s) /\ AffinityMatches(s, query))
                         => s \in Names(chosen)

\* C20 (fallback): when the automatic selection yields no source, the sources
\* that search_jobs selects are core sources that are registered and enabled.
C20_FallbackToEnabledCore ==
    ( /\ Selected
      /\ request["caller"].specific_scrapers = <<>>
      /\ get_scrapers_for_search(scraper_configs, request["caller"].query) = <<>> )
    => \A s \in Names(scrapers_to_use["caller"]) :
          s \in Names(CoreScrapers) /\ IsEnabled(scraper_configs, s)

\* the selection step of the thread's last search_jobs call has run
HasSelected(c) == pc[c] # "select" /\ (pc[c] # "idle" \/ returned[c] # NoReturn)

ExecuteStep(c, req) ==
    \/ Begin(c, req)
    \/ Select(c)
    \/ SubmitCheck(c)
    \/ Submit(c)
    \/ CollectResult(c)
    \/ ExecuteReturns(c)

NextCounters ==
    \/ ExecuteStep("caller", AutoRequest)
    \/ \E t \in 1..Len(tasks) : TaskStart(t)
    \/ \E t \in 1..Len(tasks) : TaskReadsScraped(t)
    \/ \E t \in 1..Len(tasks) : TaskStoresScraped(t)
    \/ \E t \in 1..Len(tasks) : TaskReadsSourceErrors(t)
    \/ \E t \in 1..Len(tasks) : TaskStoresSourceErrors(t)
    \/ \E t \in 1..Len(tasks) : TaskReadsErrors(t)
    \/ \E t \in 1..Len(tasks) : TaskStoresErrors(t)

SpecCounters == Init /\ [][NextCounters]_vars

\* the tasks of a source that ended in the except clause / with jobs
FailedTasks(name) ==
    {t \in 1..Len(tasks) : tasks[t].name = name /\ tasks[t].state = "finished"
                              /\ tasks[t].raised}

SucceededTasks(name) ==
    {t \in 1..Len(tasks) : tasks[t].name = name /\ tasks[t].state = "finished"
                              /\ ~tasks[t].raised}

\* C22 (no lost performance updates): when every submitted task has
\* finished, and none timed out at the collector, the global error_count is
\* the number of tasks that failed, and each source's error_count and
\* jobs_scraped are the totals of that source's tasks.
C22_NoLostUpdates ==
    (\A t \in 1..Len(tasks) : tasks[t].state = "finished") =>
        /\ stats.error_count =
              Cardinality({t \in 1..Len(tasks) : tasks[t].raised})
        /\ \A name \in DOMAIN performance :
              /\ performance[name].error_count = Cardinality(FailedTasks(name))
              /\ performance[name].jobs_scraped =
                    Cardinality(SucceededTasks(name)) * Len(Catalogue(name))

\* C23 (monotonic counters): no step (of a search, of a task, of
\* enable_scraper, of register_scraper for a registered name) lowers the
\* jobs_scraped or the error_count of a registered source.
C23_CountersNeverDecrease ==
    [][\A name \in DOMAIN performance :
          /\ name \in DOMAIN performance'
          /\ performance'[name].jobs_scraped >= performance[name].jobs_scraped
          /\ performance'[name].error_count >= performance[name].error_count]_vars

\* One search from deduplication to its return, for any list of collected
\* jobs and any set of jobs the database refuses.
InitSave ==
    /\ AtDedupe
    /\ refused \in SUBSET JobPool

NextSave ==
    \/ Dedupe("caller")
    \/ Save("caller")
    \/ SetFound("caller")
    \/ SetSaved("caller")
    \/ SetDuplicates("caller")
    \/ SetStatus("caller")
    \/ SetEndTime("caller")
    \/ Record("caller")
    \/ Return("caller")
    \/ SaveQueryRaises("caller")

SpecSave == InitSave /\ [][NextSave]_vars

\* the search is past _save_jobs_to_database / past line 423
AfterSave == AfterExecute \ {"dedupe", "save"}
AfterStatus == {"set_end_time", "record", "save_query"}

\* how often save_job was called for a job
SaveCount(c, job) == Cardinality({i \in 1..Len(save_calls[c]) : save_calls[c][i] = job})

\* C24 (persistence hand-off): once _save_jobs_to_database has run, save_job
\* was called exactly once for each unique job and for no other job (so for
\* no dropped duplicate), every unique job the database did not refuse was
\* saved whatever failed before it, and the search goes on to set the
\* session's status to completed also when saves failed.
C24_SavedOncePerUniqueJob ==
    pc["caller"] \in AfterSave =>
        /\ \A i \in 1..Len(unique_jobs["caller"]) :
              SaveCount("caller", unique_jobs["caller"][i]) = 1
        /\ \A i \in 1..Len(save_calls["caller"]) :
              \E k \in 1..Len(unique_jobs["caller"]) :
                  save_calls["caller"][i] = unique_jobs["caller"][k]
        /\ \A i \in 1..Len(unique_jobs["caller"]) :
              unique_jobs["caller"][i] \notin refused =>
                  \E k \in 1..Len(saved_job_ids["caller"]) :
                      saved_job_ids["caller"][k] = unique_jobs["caller"][i].url
        /\ pc["caller"] \in AfterStatus =>
              sessions[current_session].status = "completed"

\* a search that dropped a duplicate, whose first save failed and a later
\* one succeeded, and that completed
C24_SaveFailedThenSaved ==
    /\ pc["caller"] = "save_query"
    /\ dropped["caller"] > 0
    /\ Len(unique_jobs["caller"]) >= 2
    /\ unique_jobs["caller"][1] \in refused
    /\ unique_jobs["caller"][2] \notin refused
    /\ Len(save_calls["caller"]) = Len(unique_jobs["caller"])
    /\ saved_job_ids["caller"] # <<>>
    /\ sessions[current_session].status = "completed"

\* The owning thread searches, one call after the other, while time passes,
\* and cleans the history up or closes the manager between the calls.
NextHistory ==
    \/ SearchStep("caller", {AutoRequest})
    \/ SubmitRaises("caller")
    \/ WorkerStep
    \/ Advance
    \/ cleanup_old_sessions(days_to_keep)
    \/ close

SpecHistory == Init /\ [][NextHistory]_vars

\* C25 (bounded history): right after the start of a search the history
\* holds at most 500 sessions and no session that started 30 days ago or
\* earlier; nothing else than the start of the search has to purge them.
C25_HistoryPurgedOnBegin ==
    [][(pc["caller"] = "idle" /\ pc'["caller"] = "select") =>
          /\ Len(session_history') <= 500
          /\ \A i \in 1..Len(session_history') :
                sessions'[session_history'[i]].start_time
                    > clock' - days_to_keep * SecondsPerDay]_vars

\* C29 (unique session ids): any two sessions the manager has created have
\* different session_id values.
C29_SessionIdsUnique ==
    \A i, j \in 1..Len(sessions) :
        i # j => sessions[i].session_id # sessions[j].session_id

\* C26 (returned session is terminal): at the step in which search_jobs
\* returns a session to its caller, that session's status is completed or
\* failed, its end_time is set and its jobs_found is not negative, also when
\* pause_scraping or cancel_scraping ran in another thread during the search.
C26_ReturnedSessionCompletedOrFailed ==
    [][\A c \in Callers :
          (pc[c] = "save_query" /\ pc'[c] = "idle" /\ returned'[c] \in 1..Len(sessions'))
              => /\ sessions'[returned'[c]].status \in {"completed", "failed"}
                 /\ sessions'[returned'[c]].end_time
                 /\ sessions'[returned'[c]].jobs_found >= 0]_vars

\* C27 (cancellation is local to its session): on a manager that was not
\* closed, the submission loop of a search ends before a task was submitted
\* for every selected source only if that search's own session was
\* cancelled; a cancel_scraping that came before the call has no effect on it.
C27_EarlierCancelDoesNotStopSubmission ==
    [][(/\ pc["caller"] = "submit"
        /\ pc'["caller"] = "collect"
        /\ cursor["caller"] <= Len(scrapers_to_use["caller"])
        /\ ~shutdown)
          => sessions[current_session].status = "cancelled"]_vars

\* C28 (concurrent searches do not mix state): each call returns the session
\* it created itself; a session is created by one call, so the calls of two
\* threads never return the same session object.
C28_EachCallReturnsItsOwnSession ==
    \A c1, c2 \in BackgroundThreads :
        (c1 # c2 /\ returned[c1] \in 1..Len(sessions)) => returned[c1] # returned[c2]

\* C30 (each invocation accounted once): an invocation of a source adds
\* either one to the source's error_count or its result to the success
\* side of the record, never both and never two errors; so the errors
\* counted for a source plus its invocations that ended with a result never
\* exceed its invocations.
C30_InvocationAccountedOnce ==
    \A name \in DOMAIN performance :
        performance[name].error_count + Cardinality(SucceededTasks(name))
            <= Cardinality({t \in 1..Len(tasks) : tasks[t].name = name})

====
